---- MODULE Spec2Model ----
(***************************************************************************)
(* Model of the wearable audio logger (amulet_main.py, oled_button.py,     *)
(* worn_det.py, util.py): the capture producer, the orchestrator loop and  *)
(* its recording gate, the button-driven mode controller, the wear         *)
(* detector and the upload monitor.                                        *)
(*                                                                         *)
(* Physical quantities are scaled to integers:                             *)
(*   accel_std, gyro_std : hundredths (0.05 -> 5, 0.2 -> 20)               *)
(*   temperature         : tenths of a degree C (27.5 -> 275)              *)
(*   temp_slope          : hundredths of a degree C per minute (0.1 -> 10) *)
(***************************************************************************)
EXTENDS Integers, Sequences, FiniteSets

\* ------------------------------------------------------------------ bounds
\* Chunks the audio source delivers before its blocking read stalls.
MaxChunks == 2
\* Segments the orchestrator persists before the run is cut off.
MaxSegments == 1
\* Chunks per full segment: the model's stand-in for 1875.
MaxTarget == 2
\* Where the history counters stop counting.
CountCap == 2
\* Segment files in data/ when the monitor starts.
MaxFiles == 2
\* Where the count of a file's skipped cycles stops.
MaxRetries == 2
\* Complete 30 ms frames in a segment put to the classifier.
MaxFrames == 11

\* ------------------------------------------------------- program constants
RATE == 48000
CHUNK == 1024
RECORD_SECONDS == 40
SAMPLE_RATE_HZ == 20
WINDOW_SIZE == 3
ACC_STD_THRESHOLD == 5
GYRO_STD_THRESHOLD == 20
SKIN_TEMP_THRESHOLD == 275
SLOPE_THRESHOLD == 10
NumModes == 3
ENERGY_THRESHOLD == 30
DELTA_THRESHOLD == 6
RATIO_PERCENT == 10
FRAME_MS == 30

Min(a, b) == IF a < b THEN a ELSE b

\* int(RATE / CHUNK * RECORD_SECONDS): 46.875 * 40 = 1875 exactly.
FullTarget == (RATE * RECORD_SECONDS) \div CHUNK

\* The number of pulls of one assembly, range(...) of main(), cut to MaxTarget.
TargetChunks == Min(FullTarget, MaxTarget)

\* WINDOW_SIZE * SAMPLE_RATE_HZ samples per window.
num_samples == WINDOW_SIZE * SAMPLE_RATE_HZ

\* ------------------------------------------------------------ wear states
WORN_ACTIVE == "WORN (Moving + Warm)"
POSSIBLY_WORN == "POSSIBLY WORN (Warming Up + Motion)"
AMBIENT_MOTION == "AMBIENT MOTION (Motion, but Cold)"
RECENTLY_REMOVED == "RECENTLY REMOVED (Cooling)"
NOT_WORN == "NOT WORN"

WearStates == {WORN_ACTIVE, POSSIBLY_WORN, AMBIENT_MOTION, RECENTLY_REMOVED, NOT_WORN}

STATUS_DICT(s) ==
    CASE s = AMBIENT_MOTION -> FALSE
      [] s = NOT_WORN -> FALSE
      [] s = RECENTLY_REMOVED -> FALSE
      [] s = WORN_ACTIVE -> TRUE
      [] s = POSSIBLY_WORN -> TRUE

\* Sensor-derived inputs of one window, around each threshold.
AccelStdValues == {ACC_STD_THRESHOLD - 1, ACC_STD_THRESHOLD, ACC_STD_THRESHOLD + 1}
GyroStdValues == {GYRO_STD_THRESHOLD - 1, GYRO_STD_THRESHOLD, GYRO_STD_THRESHOLD + 1}
TempValues == {SKIN_TEMP_THRESHOLD - 1, SKIN_TEMP_THRESHOLD, SKIN_TEMP_THRESHOLD + 1}
SlopeValues == {0 - SLOPE_THRESHOLD - 1, 0 - SLOPE_THRESHOLD, 0,
                SLOPE_THRESHOLD, SLOPE_THRESHOLD + 1}

\* How many of the window's samples failed to read: none, one, or all of them.
FailCounts == {0, 1, num_samples}

analyze_motion(accel_std, gyro_std) ==
    (accel_std > ACC_STD_THRESHOLD) \/ (gyro_std > GYRO_STD_THRESHOLD)

is_temp_consistent_with_skin(temp_celsius) == temp_celsius > SKIN_TEMP_THRESHOLD

\* A faulty variant: the slope limits taken inclusively.
WearDecisionInclusive(moving, warm, temp_slope) ==
    IF moving
    THEN IF warm THEN WORN_ACTIVE
         ELSE IF temp_slope >= SLOPE_THRESHOLD THEN POSSIBLY_WORN
         ELSE AMBIENT_MOTION
    ELSE IF temp_slope <= 0 - SLOPE_THRESHOLD THEN RECENTLY_REMOVED
         ELSE NOT_WORN

\* The decision of get_wear_status once the window's data is in.
WearDecision(moving, warm, temp_slope) ==
    IF moving
    THEN IF warm THEN WORN_ACTIVE
         ELSE IF temp_slope > SLOPE_THRESHOLD THEN POSSIBLY_WORN
         ELSE AMBIENT_MOTION
    ELSE IF temp_slope < 0 - SLOPE_THRESHOLD THEN RECENTLY_REMOVED
         ELSE NOT_WORN

\* collect_window swallows each failed sample and goes on with the rest; with
\* no sample left analyze_motion raises, and so does a failed temperature read:
\* get_wear_status then returns the current status.
WindowRaises(nfail, temp_fail) == temp_fail \/ nfail = num_samples

\* A faulty variant: the handler falls back to "NOT WORN" instead of the
\* current status.
get_wear_status_reset(current, nfail, temp_fail, accel_std, gyro_std, temp, temp_slope) ==
    IF WindowRaises(nfail, temp_fail)
    THEN NOT_WORN
    ELSE WearDecision(analyze_motion(accel_std, gyro_std),
                      is_temp_consistent_with_skin(temp), temp_slope)

get_wear_status(current, nfail, temp_fail, accel_std, gyro_std, temp, temp_slope) ==
    IF WindowRaises(nfail, temp_fail)
    THEN current
    ELSE WearDecision(analyze_motion(accel_std, gyro_std),
                      is_temp_consistent_with_skin(temp), temp_slope)

\* --------------------------------------------------------------- variables
VARIABLES
    \* shared_state and audio_queue
    lock, should_record, audio_queue,
    \* record_audio
    rec_pc, rec_gate_seen, next_chunk, stream_open,
    \* main
    main_pc, mode_idx, detection_active, frames, timed_out, segments,
    \* OLEDButtonController and the button
    button, oled_pc, oled_running, mode_index, mode_changed, gpio_ok,
    \* WearableDetector
    det_running, det_pc, current_status,
    \* history of the run, read by the properties only
    reads_gate_off, idles_gate_on, release_observed, notified, press_handled,
    win_fail,
    \* one window's inputs and the status get_wear_status computes from them
    wear_in, wear_out,
    \* monitor_and_send: the configuration, the directories data/ and sent/,
    \* the requests posted, the loop's position
    DEBUG, data, sent, uploads, mon_pc, mon_files, mon_i,
    \* history of the monitor's pass, read by the properties only
    skipped, retries, cur_class, cur_removes,
    \* one segment's frames put to the speech classifier, and its verdicts
    speech_in, speech_out,
    \* the wall clock in seconds, the second the assembly in progress began,
    \* and the name of the file save_audio has open for writing (0: none)
    now, seg_start, writing

sharedVars == <<lock, should_record, audio_queue>>
recVars == <<rec_pc, rec_gate_seen, next_chunk, stream_open>>
mainVars == <<main_pc, mode_idx, detection_active, frames, timed_out, segments>>
oledVars == <<button, oled_pc, oled_running, mode_index, mode_changed, gpio_ok>>
detVars == <<det_running, det_pc, current_status>>
histVars == <<reads_gate_off, idles_gate_on, release_observed, notified,
              press_handled, win_fail>>
wearVars == <<wear_in, wear_out>>
\* What the threads of main() never touch.
monVars == <<DEBUG, data, sent, uploads, mon_pc, mon_files, mon_i,
             skipped, retries, cur_class, cur_removes>>
\* The monitor's own position and history, the directories apart.
monCtl == <<DEBUG, uploads, mon_pc, mon_files, mon_i,
            skipped, retries, cur_class, cur_removes>>
speechVars == <<speech_in, speech_out>>
clockVars == <<now, seg_start, writing>>
otherVars == <<wearVars, monVars, speechVars, clockVars>>

vars == <<sharedVars, recVars, mainVars, oledVars, detVars, histVars, otherVars>>


\* ------------------------------------------------------------------- Init
\* The state after the constructors and the thread starts of main():
\* SharedState.should_record = True, mode_index = 0, the detector built but
\* not started, its status "NOT WORN", the button released.
InitProgram ==
    /\ lock = "free" /\ should_record = TRUE /\ audio_queue = <<>>
    /\ rec_pc = "check" /\ rec_gate_seen = FALSE /\ next_chunk = 1
    /\ stream_open = TRUE
    /\ main_pc = "lock" /\ mode_idx = 0 /\ detection_active = FALSE
    /\ frames = <<>> /\ timed_out = FALSE /\ segments = <<>>
    /\ button = "HIGH" /\ oled_pc = "poll" /\ oled_running = TRUE
    /\ mode_index = 0 /\ mode_changed = FALSE /\ gpio_ok = TRUE
    /\ det_running = FALSE /\ det_pc = "none" /\ current_status = NOT_WORN
    /\ reads_gate_off = 0 /\ idles_gate_on = 0
    /\ release_observed = FALSE /\ notified = 0 /\ press_handled = FALSE
    /\ win_fail = "none"

\* No window has been put to get_wear_status on its own.
NoWindow == [current |-> NOT_WORN, nfail |-> 0, temp_fail |-> FALSE,
             accel_std |-> 0, gyro_std |-> 0, temp |-> 0, temp_slope |-> 0]

\* The monitor before its first cycle, with DEBUG = True as the source has it
\* and an empty data/ directory.
\* No segment has been put to the classifier on its own.
NoSegment == [frames |-> <<>>, tail |-> 0]

\* The classifier idle, the clock at its first second, no file being written.
InitIdle ==
    /\ speech_in = NoSegment /\ speech_out = <<>>
    /\ now = 1 /\ seg_start = 1 /\ writing = 0

InitIdleMonitor ==
    /\ InitIdle
    /\ DEBUG = TRUE
    /\ data = {} /\ sent = {} /\ uploads = {}
    /\ mon_pc = "list" /\ mon_files = <<>> /\ mon_i = 1
    /\ skipped = {} /\ retries = [n \in 1..MaxFiles |-> 0]
    /\ cur_class = "none" /\ cur_removes = 0

Init ==
    /\ InitProgram
    /\ InitIdleMonitor
    /\ wear_in = NoWindow
    /\ wear_out = "undetermined"

\* ---------------------------------------------------------- record_audio
\* A faulty variant: the gate is looked at but the read goes ahead anyway.
RecCheckNoGate ==
    /\ rec_pc = "check"
    /\ lock = "free"
    /\ rec_gate_seen' = should_record
    /\ rec_pc' = "read"
    /\ UNCHANGED <<lock, should_record, audio_queue, next_chunk, stream_open>>
    /\ UNCHANGED <<mainVars, oledVars, detVars, histVars, otherVars>>

\* with shared_state.lock: if not should_record: sleep(0.1); continue
\* The sleep runs inside the with block, so the lock stays held while idle.
RecCheck ==
    /\ rec_pc = "check"
    /\ lock = "free"
    /\ rec_gate_seen' = should_record
    /\ IF should_record
       THEN rec_pc' = "read" /\ lock' = "free"
       ELSE rec_pc' = "idle" /\ lock' = "rec"
    /\ UNCHANGED <<should_record, audio_queue, next_chunk, stream_open>>
    /\ UNCHANGED <<mainVars, oledVars, detVars, histVars, otherVars>>

\* The idle sleep ends; continue leaves the with block and releases the lock.
RecIdle ==
    /\ rec_pc = "idle"
    /\ rec_pc' = "check"
    /\ lock' = "free"
    /\ idles_gate_on' = IF should_record THEN Min(idles_gate_on + 1, CountCap)
                        ELSE idles_gate_on
    /\ UNCHANGED <<should_record, audio_queue, rec_gate_seen, next_chunk, stream_open>>
    /\ UNCHANGED <<mainVars, oledVars, detVars>>
    /\ UNCHANGED <<reads_gate_off, release_observed, notified, press_handled,
                   win_fail, otherVars>>

\* A faulty variant: after a read the loop reads again without going back to
\* the gate check.
RecReadAgain ==
    /\ rec_pc = "read"
    /\ stream_open
    /\ next_chunk <= MaxChunks
    /\ audio_queue' = Append(audio_queue, next_chunk)
    /\ next_chunk' = next_chunk + 1
    /\ rec_pc' = "read"
    /\ reads_gate_off' = IF should_record THEN reads_gate_off
                         ELSE Min(reads_gate_off + 1, CountCap)
    /\ idles_gate_on' = 0
    /\ UNCHANGED <<lock, should_record, rec_gate_seen, stream_open>>
    /\ UNCHANGED <<mainVars, oledVars, detVars>>
    /\ UNCHANGED <<release_observed, notified, press_handled, win_fail, otherVars>>

\* data = stream.read(...); audio_queue.push(data)
RecRead ==
    /\ rec_pc = "read"
    /\ stream_open
    /\ next_chunk <= MaxChunks
    /\ audio_queue' = Append(audio_queue, next_chunk)
    /\ next_chunk' = next_chunk + 1
    /\ rec_pc' = "check"
    /\ reads_gate_off' = IF should_record THEN reads_gate_off
                         ELSE Min(reads_gate_off + 1, CountCap)
    /\ idles_gate_on' = 0
    /\ UNCHANGED <<lock, should_record, rec_gate_seen, stream_open>>
    /\ UNCHANGED <<mainVars, oledVars, detVars>>
    /\ UNCHANGED <<release_observed, notified, press_handled, win_fail, otherVars>>

\* stream.read raises (always, once the stream is closed): print, sleep(0.1).
RecReadError ==
    /\ rec_pc = "read"
    /\ rec_pc' = "check"
    /\ reads_gate_off' = IF should_record THEN reads_gate_off
                         ELSE Min(reads_gate_off + 1, CountCap)
    /\ idles_gate_on' = 0
    /\ UNCHANGED <<lock, should_record, audio_queue, rec_gate_seen, next_chunk,
                   stream_open>>
    /\ UNCHANGED <<mainVars, oledVars, detVars>>
    /\ UNCHANGED <<release_observed, notified, press_handled, win_fail, otherVars>>

\* ------------------------------------------------------------------ main
\* with shared_state.lock: (blocks until the lock is free)
MainAcquire ==
    /\ main_pc = "lock"
    /\ lock = "free"
    /\ lock' = "main"
    /\ main_pc' = "eval"
    /\ UNCHANGED <<should_record, audio_queue>>
    /\ UNCHANGED <<mode_idx, detection_active, frames, timed_out, segments>>
    /\ UNCHANGED <<recVars, oledVars, detVars, histVars, otherVars>>

\* A faulty variant: AUTO records whatever the detector says.
GateValueAutoOn(m, is_being_worn) ==
    CASE m = 0 -> TRUE
      [] m = 1 -> TRUE
      [] m = 2 -> FALSE

\* The value main() gives shared_state.should_record for mode m, is_being_worn
\* being detector.bool_status.
GateValue(m, is_being_worn) ==
    CASE m = 0 -> TRUE
      [] m = 1 -> is_being_worn
      [] m = 2 -> FALSE

\* Whether main() wants the detector running in mode m.
DetectionWanted(m) == m # 2

\* The history counters follow the gate: reads counted while it is off start
\* again when it comes on, idle sleeps counted while it is on when it goes off.
GateHistory(gate) ==
    /\ reads_gate_off' = IF gate THEN 0 ELSE reads_gate_off
    /\ idles_gate_on' = IF gate THEN idles_gate_on ELSE 0

\* The body of the with block: mode_idx = oled_controller.mode_index, the gate,
\* then detector.start() (modes 0, 1) or detector.stop() (mode 2).
\* start(): if not _running: _running = True and a new thread starts.
\* stop(): _running = False; if _thread: join, which main() waits for with
\* the lock still held.
MainEval ==
    /\ main_pc = "eval"
    /\ mode_idx' = mode_index
    /\ should_record' = GateValue(mode_index, STATUS_DICT(current_status))
    /\ GateHistory(should_record')
    /\ IF DetectionWanted(mode_index)
       THEN /\ detection_active' = TRUE
            /\ IF ~detection_active /\ ~det_running
               THEN det_running' = TRUE /\ det_pc' = "loop"
               ELSE UNCHANGED <<det_running, det_pc>>
            /\ lock' = "free"
            /\ main_pc' = "gate"
       ELSE /\ detection_active' = FALSE
            /\ IF detection_active
               THEN /\ det_running' = FALSE
                    /\ IF det_pc # "none"
                       THEN main_pc' = "join" /\ lock' = "main"
                       ELSE main_pc' = "gate" /\ lock' = "free"
               ELSE /\ UNCHANGED det_running
                    /\ main_pc' = "gate" /\ lock' = "free"
            /\ UNCHANGED det_pc
    /\ UNCHANGED <<audio_queue, frames, timed_out, segments, current_status>>
    /\ UNCHANGED <<recVars, oledVars>>
    /\ UNCHANGED <<release_observed, notified, press_handled, win_fail, otherVars>>

\* self._thread.join() returns once _run_detection has returned; then
\* self._thread = None and the with block ends.
MainJoin ==
    /\ main_pc = "join"
    /\ det_pc = "exit"
    /\ det_pc' = "none"
    /\ lock' = "free"
    /\ main_pc' = "gate"
    /\ UNCHANGED <<should_record, audio_queue>>
    /\ UNCHANGED <<mode_idx, detection_active, frames, timed_out, segments>>
    /\ UNCHANGED <<det_running, current_status>>
    /\ UNCHANGED <<recVars, oledVars, histVars, otherVars>>

\* The run is cut off once n segments are persisted: no further assembly
\* begins.
SegmentsBelow(n) == should_record => Len(segments) < n

\* if not shared_state.should_record: sleep(5); continue
\* else frames = [] and the for loop starts.
MainGate ==
    /\ main_pc = "gate"
    /\ IF ~should_record
       THEN /\ main_pc' = "lock"
            /\ UNCHANGED <<frames, timed_out>>
       ELSE /\ main_pc' = "pop"
            /\ frames' = <<>>
            /\ timed_out' = FALSE
    /\ seg_start' = IF should_record THEN now ELSE seg_start
    /\ UNCHANGED <<mode_idx, detection_active, segments>>
    /\ UNCHANGED <<sharedVars, recVars, oledVars, detVars, histVars>>
    /\ UNCHANGED <<wearVars, monVars, speechVars, now, writing>>

\* A faulty variant: the chunk pulled stays in the queue.
MainPopKeeps ==
    /\ main_pc = "pop"
    /\ audio_queue # <<>>
    /\ frames' = Append(frames, Head(audio_queue))
    /\ main_pc' = IF Len(frames') >= TargetChunks THEN "save" ELSE "pop"
    /\ UNCHANGED <<lock, should_record, audio_queue>>
    /\ UNCHANGED <<mode_idx, detection_active, timed_out, segments>>
    /\ UNCHANGED <<recVars, oledVars, detVars, histVars, otherVars>>

\* data = audio_queue.pop(timeout=5) returns a chunk: frames.append(data);
\* the loop ends after TargetChunks pulls.
MainPop ==
    /\ main_pc = "pop"
    /\ audio_queue # <<>>
    /\ frames' = Append(frames, Head(audio_queue))
    /\ audio_queue' = Tail(audio_queue)
    /\ main_pc' = IF Len(frames') >= TargetChunks THEN "save" ELSE "pop"
    /\ UNCHANGED <<lock, should_record>>
    /\ UNCHANGED <<mode_idx, detection_active, timed_out, segments>>
    /\ UNCHANGED <<recVars, oledVars, detVars, histVars, otherVars>>

\* A faulty variant: a timed-out pull is logged and the loop pulls again.
MainPopTimeoutContinue ==
    /\ main_pc = "pop"
    /\ audio_queue = <<>>
    /\ timed_out' = TRUE
    /\ main_pc' = "pop"
    /\ UNCHANGED <<mode_idx, detection_active, frames, segments>>
    /\ UNCHANGED <<sharedVars, recVars, oledVars, detVars, histVars, otherVars>>

\* The queue stayed empty for the 5 s of the pull: pop returns None, break.
MainPopTimeout ==
    /\ main_pc = "pop"
    /\ audio_queue = <<>>
    /\ timed_out' = TRUE
    /\ main_pc' = "save"
    /\ UNCHANGED <<mode_idx, detection_active, frames, segments>>
    /\ UNCHANGED <<sharedVars, recVars, oledVars, detVars, histVars, otherVars>>

\* What a completely written segment file holds: 16-bit stereo audio, with
\* speech or without.
AudioKinds == {"speech", "silent"}

\* What a reader finds in a file: a complete segment, or something wave.open
\* or the sample-width check rejects.
FileKinds == {"speech", "silent", "malformed"}

\* The record of a persisted segment: its chunks, whether a pull timed out,
\* the file name (the second save_audio took its timestamp) and the second
\* its assembly began.
SegmentRecord(name) ==
    [frames |-> frames, timed_out |-> timed_out, name |-> name, started |-> seg_start]

\* The directory with the file named n written, holding content k.
WithFile(dir, n, k) == {r \in dir : r.name # n} \cup {[name |-> n, content |-> k]}

\* save_audio(frames, audio) as one step of the pipeline on its own: the
\* collected chunks are persisted as one segment under the timestamp taken
\* now. The file in data/ is followed by SaveOpen and SaveClose, where the
\* monitor runs beside the assembly.
MainSave ==
    /\ main_pc = "save"
    /\ segments' = Append(segments, SegmentRecord(now))
    /\ main_pc' = "lock"
    /\ UNCHANGED <<mode_idx, detection_active, frames, timed_out>>
    /\ UNCHANGED <<sharedVars, recVars, oledVars, detVars, histVars, otherVars>>

\* save_audio up to wave.open(filename, 'wb'): the timestamp is taken and the
\* file is created under its final name in data/. Until the file is closed
\* its bytes on disk are whatever has been flushed: a reader finds a complete
\* header with audio, or something it cannot decode.
SaveOpen ==
    /\ main_pc = "save"
    /\ writing' = now
    /\ \E k \in FileKinds : data' = WithFile(data, now, k)
    /\ main_pc' = "write"
    /\ UNCHANGED <<mode_idx, detection_active, frames, timed_out, segments>>
    /\ UNCHANGED <<sharedVars, recVars, oledVars, detVars, histVars>>
    /\ UNCHANGED <<wearVars, sent, monCtl, speechVars, now, seg_start>>

\* The with block of save_audio ends: the header is patched and the file
\* closed. The bytes go to the open file wherever its name is by now: still in
\* data/, moved to sent/, or unlinked.
SaveClose ==
    /\ main_pc = "write"
    /\ \E k \in AudioKinds :
          IF writing \in {r.name : r \in data}
          THEN data' = WithFile(data, writing, k) /\ UNCHANGED sent
          ELSE IF writing \in {r.name : r \in sent}
          THEN sent' = WithFile(sent, writing, k) /\ UNCHANGED data
          ELSE UNCHANGED <<data, sent>>
    /\ segments' = Append(segments, SegmentRecord(writing))
    /\ writing' = 0
    /\ main_pc' = "lock"
    /\ UNCHANGED <<mode_idx, detection_active, frames, timed_out>>
    /\ UNCHANGED <<sharedVars, recVars, oledVars, detVars, histVars>>
    /\ UNCHANGED <<wearVars, monCtl, speechVars, now, seg_start>>

\* A second of wall-clock time passes.
Tick ==
    /\ now < MaxFiles
    /\ now' = now + 1
    /\ UNCHANGED <<sharedVars, recVars, mainVars, oledVars, detVars, histVars>>
    /\ UNCHANGED <<wearVars, monVars, speechVars, seg_start, writing>>

\* KeyboardInterrupt, at any point of the loop: a with block in progress
\* releases the lock, and the finally block starts.
MainInterrupt ==
    /\ main_pc \in {"lock", "eval", "join", "gate", "pop", "save"}
    /\ main_pc' = "finally"
    /\ lock' = IF lock = "main" THEN "free" ELSE lock
    /\ UNCHANGED <<should_record, audio_queue>>
    /\ UNCHANGED <<mode_idx, detection_active, frames, timed_out, segments>>
    /\ UNCHANGED <<recVars, oledVars, detVars, histVars, otherVars>>

\* finally: stream.stop_stream(); stream.close(); audio.terminate();
\* then oled_controller.stop() starts with self.running = False.
MainFinally ==
    /\ main_pc = "finally"
    /\ stream_open' = FALSE
    /\ oled_running' = FALSE
    /\ main_pc' = "oled_stop"
    /\ UNCHANGED <<mode_idx, detection_active, frames, timed_out, segments>>
    /\ UNCHANGED <<rec_pc, rec_gate_seen, next_chunk>>
    /\ UNCHANGED <<button, oled_pc, mode_index, mode_changed, gpio_ok>>
    /\ UNCHANGED <<sharedVars, detVars, histVars, otherVars>>

\* The rest of stop(): self.clear_screen(); GPIO.cleanup().
MainOledStop ==
    /\ main_pc = "oled_stop"
    /\ gpio_ok' = FALSE
    /\ main_pc' = "oled_join"
    /\ UNCHANGED <<mode_idx, detection_active, frames, timed_out, segments>>
    /\ UNCHANGED <<button, oled_pc, oled_running, mode_index, mode_changed>>
    /\ UNCHANGED <<sharedVars, recVars, detVars, histVars, otherVars>>

\* oled_controller.join() returns once run() has returned.
MainOledJoin ==
    /\ main_pc = "oled_join"
    /\ oled_pc = "done"
    /\ main_pc' = "exited"
    /\ UNCHANGED <<mode_idx, detection_active, frames, timed_out, segments>>
    /\ UNCHANGED <<sharedVars, recVars, oledVars, detVars, histVars, otherVars>>

\* ------------------------------------------------- the button (hardware)
\* The pin is pulled up: pressed reads LOW, released reads HIGH.
ButtonPress ==
    /\ button = "HIGH"
    /\ button' = "LOW"
    /\ UNCHANGED <<oled_pc, oled_running, mode_index, mode_changed, gpio_ok>>
    /\ UNCHANGED <<sharedVars, recVars, mainVars, detVars, histVars, otherVars>>

ButtonRelease ==
    /\ button = "LOW"
    /\ button' = "HIGH"
    /\ UNCHANGED <<oled_pc, oled_running, mode_index, mode_changed, gpio_ok>>
    /\ UNCHANGED <<sharedVars, recVars, mainVars, detVars, histVars, otherVars>>

\* ------------------------------------------- OLEDButtonController.run
\* except Exception: print; self.stop(): GPIO.input raises once
\* GPIO.cleanup() has run, and run() returns through the handler.
OledRaise ==
    /\ oled_running' = FALSE
    /\ oled_pc' = "done"
    /\ UNCHANGED <<button, mode_index, mode_changed, gpio_ok>>
    /\ UNCHANGED <<release_observed, notified, press_handled>>

\* while self.running: if GPIO.input(pin) == GPIO.LOW: sleep(0.05) and the
\* release wait starts; otherwise sleep(0.05) and poll again.
OledPoll ==
    /\ oled_pc = "poll"
    /\ IF ~oled_running
       THEN /\ oled_pc' = "done"
            /\ UNCHANGED <<button, oled_running, mode_index, mode_changed, gpio_ok>>
            /\ UNCHANGED <<release_observed, notified, press_handled>>
       ELSE IF ~gpio_ok
       THEN OledRaise
       ELSE IF button = "LOW"
       THEN /\ oled_pc' = "wait"
            /\ release_observed' = FALSE
            /\ notified' = 0
            /\ press_handled' = FALSE
            /\ UNCHANGED <<button, oled_running, mode_index, mode_changed, gpio_ok>>
       ELSE /\ UNCHANGED oledVars
            /\ UNCHANGED <<release_observed, notified, press_handled>>
    /\ UNCHANGED <<sharedVars, recVars, mainVars, detVars>>
    /\ UNCHANGED <<reads_gate_off, idles_gate_on, win_fail, otherVars>>

\* show_status(): draws the mode and ends with self.mode_changed.set().
ShowStatusSets == 1

\* while GPIO.input(pin) == GPIO.LOW and self.running: sleep(0.01)
\* then mode_index = (mode_index + 1) % len(modes); show_status();
\* mode_changed.set().
OledWait ==
    /\ oled_pc = "wait"
    /\ IF ~gpio_ok
       THEN OledRaise
       ELSE IF button = "LOW" /\ oled_running
       THEN /\ UNCHANGED oledVars
            /\ UNCHANGED <<release_observed, notified, press_handled>>
       ELSE /\ mode_index' = (mode_index + 1) % NumModes
            /\ mode_changed' = TRUE
            /\ notified' = notified + ShowStatusSets + 1
            /\ release_observed' = (button = "HIGH")
            /\ press_handled' = TRUE
            /\ oled_pc' = "poll"
            /\ UNCHANGED <<button, oled_running, gpio_ok>>
    /\ UNCHANGED <<sharedVars, recVars, mainVars, detVars>>
    /\ UNCHANGED <<reads_gate_off, idles_gate_on, win_fail, otherVars>>

\* ------------------------------------------ WearableDetector._run_detection
\* while self._running:
DetLoop ==
    /\ det_pc = "loop"
    /\ det_pc' = IF det_running THEN "window" ELSE "exit"
    /\ UNCHANGED <<det_running, current_status>>
    /\ UNCHANGED <<sharedVars, recVars, mainVars, oledVars, histVars, otherVars>>

\* What the window's sensor reads amounted to.
WindowFailure(nfail, temp_fail) ==
    IF WindowRaises(nfail, temp_fail) THEN "raised"
    ELSE IF nfail > 0 THEN "partial"
    ELSE "none"

\* Every (new status, failure kind) one window can end with, over the sensor
\* inputs and failures of the window.
WindowOutcomes(current) ==
    { <<get_wear_status(current, nfail, temp_fail, accel_std, gyro_std, temp, temp_slope),
        WindowFailure(nfail, temp_fail)>> :
        nfail \in FailCounts, temp_fail \in BOOLEAN,
        accel_std \in AccelStdValues, gyro_std \in GyroStdValues,
        temp \in TempValues, temp_slope \in SlopeValues }

\* new_status = self.get_wear_status(); self._current_status = new_status;
\* sleep(30).
DetWindow ==
    /\ det_pc = "window"
    /\ \E o \in WindowOutcomes(current_status) :
          /\ current_status' = o[1]
          /\ win_fail' = o[2]
    /\ det_pc' = "loop"
    /\ UNCHANGED det_running
    /\ UNCHANGED <<sharedVars, recVars, mainVars, oledVars>>
    /\ UNCHANGED <<reads_gate_off, idles_gate_on, release_observed, notified,
                   press_handled, otherVars>>

\* --------------------------------------------- get_wear_status on its own
\* One window's inputs, drawn around every threshold, and the status held
\* before the window.
WindowInputs ==
    [current : WearStates, nfail : FailCounts, temp_fail : BOOLEAN,
     accel_std : AccelStdValues, gyro_std : GyroStdValues,
     temp : TempValues, temp_slope : SlopeValues]

InitWear ==
    /\ InitProgram
    /\ InitIdleMonitor
    /\ wear_in \in WindowInputs
    /\ wear_out = "undetermined"

WearApply ==
    /\ wear_out = "undetermined"
    /\ wear_out' = get_wear_status(wear_in.current, wear_in.nfail, wear_in.temp_fail,
                                   wear_in.accel_std, wear_in.gyro_std,
                                   wear_in.temp, wear_in.temp_slope)
    /\ UNCHANGED wear_in
    /\ UNCHANGED <<sharedVars, recVars, mainVars, oledVars, detVars, histVars, monVars>>
    /\ UNCHANGED <<speechVars, clockVars>>

\* ------------------------------------------------------- monitor_and_send
\* The segment file with this name in a directory.
FileNamed(dir, n) == CHOOSE r \in dir : r.name = n

Names(dir) == {r.name : r \in dir}

Without(dir, n) == {r \in dir : r.name # n}

\* sorted([f for f in os.listdir(OUTPUT_DIR) if f.endswith('.wav')]): the
\* names in ascending order.
RECURSIVE SortedNames(_)
SortedNames(S) ==
    IF S = {} THEN <<>>
    ELSE LET m == CHOOSE x \in S : \A y \in S : x <= y
         IN <<m>> \o SortedNames(S \ {m})

\* detect_speech on a file's content: a decodable file is speech-present or
\* not; on a file wave.open cannot decode it raises.
detect_speech(content) == content = "speech"

DecodeRaises(content) == content = "malformed"

\* The file the for loop is at.
CurrentName == mon_files[mon_i]

\* files = sorted(...), and the for loop starts.
MonList ==
    /\ mon_pc = "list"
    /\ mon_files' = SortedNames(Names(data))
    /\ mon_i' = 1
    /\ mon_pc' = "file"
    /\ skipped' = {}
    /\ cur_class' = "none"
    /\ cur_removes' = 0
    /\ UNCHANGED <<DEBUG, data, sent, uploads, retries>>
    /\ UNCHANGED <<sharedVars, recVars, mainVars, oledVars, detVars, histVars, wearVars, speechVars, clockVars>>

\* is_connected(): True when requests.head returns, False on
\* requests.ConnectionError; any other exception of the request (a read
\* timeout is none) leaves is_connected and ends the thread.
ProbeOutcomes == {"reachable", "unreachable", "raise"}

\* A faulty variant: an unreachable network is logged and the file is sent.
MonProbeIgnored ==
    /\ mon_pc = "file"
    /\ mon_i <= Len(mon_files)
    /\ \E r \in ProbeOutcomes :
          /\ mon_pc' = IF r = "raise" THEN "dead" ELSE "send"
          /\ skipped' = IF r = "unreachable" THEN skipped \cup {CurrentName}
                        ELSE skipped
    /\ cur_class' = "none"
    /\ cur_removes' = 0
    /\ UNCHANGED <<DEBUG, data, sent, uploads, mon_files, mon_i, retries>>
    /\ UNCHANGED <<sharedVars, recVars, mainVars, oledVars, detVars, histVars, wearVars, speechVars, clockVars>>

\* for filename in files: if not is_connected(): continue
MonProbe ==
    /\ mon_pc = "file"
    /\ mon_i <= Len(mon_files)
    /\ \E r \in ProbeOutcomes :
          CASE r = "reachable" ->
                  /\ mon_pc' = "send"
                  /\ UNCHANGED <<mon_i, skipped, retries>>
            [] r = "unreachable" ->
                  /\ mon_pc' = "file"
                  /\ mon_i' = mon_i + 1
                  /\ skipped' = skipped \cup {CurrentName}
                  /\ retries' = [retries EXCEPT
                                   ![CurrentName] = Min(@ + 1, MaxRetries)]
            [] r = "raise" ->
                  /\ mon_pc' = "dead"
                  /\ UNCHANGED <<mon_i, skipped, retries>>
    /\ cur_class' = "none"
    /\ cur_removes' = 0
    /\ UNCHANGED <<DEBUG, data, sent, uploads, mon_files>>
    /\ UNCHANGED <<sharedVars, recVars, mainVars, oledVars, detVars, histVars, wearVars, speechVars, clockVars>>

\* The for loop is through: time.sleep(10) and the next cycle.
MonSleep ==
    /\ mon_pc = "file"
    /\ mon_i > Len(mon_files)
    /\ mon_pc' = "list"
    /\ UNCHANGED <<DEBUG, data, sent, uploads, mon_files, mon_i>>
    /\ UNCHANGED <<skipped, retries, cur_class, cur_removes>>
    /\ UNCHANGED <<sharedVars, recVars, mainVars, oledVars, detVars, histVars, wearVars, speechVars, clockVars>>

\* requests.post: a response with a success or an error status, or an
\* exception of the request.
PostOutcomes == {"ok", "error", "raise"}

\* A faulty variant: in the archival configuration the file is copied to
\* sent/ and stays in data/.
MonSendCopies ==
    /\ mon_pc = "send"
    /\ LET f == FileNamed(data, CurrentName) IN
       IF DecodeRaises(f.content)
       THEN /\ mon_pc' = "dead"
            /\ UNCHANGED <<data, sent, uploads, cur_class, cur_removes>>
       ELSE IF ~detect_speech(f.content)
       THEN /\ data' = Without(data, f.name)
            /\ cur_class' = "silent"
            /\ cur_removes' = cur_removes + 1
            /\ mon_pc' = "remove"
            /\ UNCHANGED <<sent, uploads>>
       ELSE IF DEBUG
       THEN /\ sent' = Without(sent, f.name) \cup {f}
            /\ cur_class' = "speech"
            /\ mon_pc' = "remove"
            /\ UNCHANGED <<data, uploads, cur_removes>>
       ELSE /\ \E o \in PostOutcomes :
                  /\ uploads' = uploads \cup {[name |-> f.name, outcome |-> o]}
                  /\ mon_pc' = IF o = "raise" THEN "dead" ELSE "remove"
            /\ cur_class' = "speech"
            /\ UNCHANGED <<data, sent, cur_removes>>
    /\ UNCHANGED <<DEBUG, mon_files, mon_i, skipped, retries>>
    /\ UNCHANGED <<sharedVars, recVars, mainVars, oledVars, detVars, histVars, wearVars, speechVars, clockVars>>

\* send_audio(file_path, url, key): no speech: os.remove and return; speech:
\* with debug the file is moved to sent/, otherwise it is posted.
MonSend ==
    /\ mon_pc = "send"
    /\ LET f == FileNamed(data, CurrentName) IN
       IF DecodeRaises(f.content)
       THEN /\ mon_pc' = "dead"
            /\ UNCHANGED <<data, sent, uploads, cur_class, cur_removes>>
       ELSE IF ~detect_speech(f.content)
       THEN /\ data' = Without(data, f.name)
            /\ cur_class' = "silent"
            /\ cur_removes' = cur_removes + 1
            /\ mon_pc' = "remove"
            /\ UNCHANGED <<sent, uploads>>
       ELSE IF DEBUG
       THEN /\ sent' = Without(sent, f.name) \cup {f}
            /\ data' = Without(data, f.name)
            /\ cur_class' = "speech"
            /\ mon_pc' = "remove"
            /\ UNCHANGED <<uploads, cur_removes>>
       ELSE /\ \E o \in PostOutcomes :
                  /\ uploads' = uploads \cup {[name |-> f.name, outcome |-> o]}
                  /\ mon_pc' = IF o = "raise" THEN "dead" ELSE "remove"
            /\ cur_class' = "speech"
            /\ UNCHANGED <<data, sent, cur_removes>>
    /\ UNCHANGED <<DEBUG, mon_files, mon_i, skipped, retries>>
    /\ UNCHANGED <<sharedVars, recVars, mainVars, oledVars, detVars, histVars, wearVars, speechVars, clockVars>>

\* Back in monitor_and_send: if not DEBUG: os.remove(file_path), which raises
\* FileNotFoundError when the file is gone; then the next file.
MonRemove ==
    /\ mon_pc = "remove"
    /\ IF DEBUG
       THEN /\ mon_pc' = "file"
            /\ mon_i' = mon_i + 1
            /\ UNCHANGED <<data, cur_removes>>
       ELSE /\ cur_removes' = cur_removes + 1
            /\ IF CurrentName \in Names(data)
               THEN /\ data' = Without(data, CurrentName)
                    /\ mon_pc' = "file"
                    /\ mon_i' = mon_i + 1
               ELSE /\ mon_pc' = "dead"
                    /\ UNCHANGED <<data, mon_i>>
    /\ UNCHANGED <<DEBUG, sent, uploads, mon_files, skipped, retries, cur_class>>
    /\ UNCHANGED <<sharedVars, recVars, mainVars, oledVars, detVars, histVars, wearVars, speechVars, clockVars>>

\* The segment directory as the monitor finds it: any files left by the
\* assembler, each under its own name; either configuration.
FileNames == 1..MaxFiles

Directories ==
    {d \in SUBSET [name : FileNames, content : FileKinds] :
        \A r1, r2 \in d : r1.name = r2.name => r1 = r2}

InitMonitor ==
    /\ InitProgram
    /\ wear_in = NoWindow
    /\ wear_out = "undetermined"
    /\ InitIdle
    /\ DEBUG \in BOOLEAN
    /\ data \in Directories
    /\ sent = {} /\ uploads = {}
    /\ mon_pc = "list" /\ mon_files = <<>> /\ mon_i = 1
    /\ skipped = {} /\ retries = [n \in FileNames |-> 0]
    /\ cur_class = "none" /\ cur_removes = 0

\* ----------------------------------------------------------- detect_speech
\* Per-frame features are scaled to integers: RMS and delta in units of 1e-5
\* (0.0003 -> 30, 0.00006 -> 6). A segment is its complete frames, each with the
\* RMS and the delta of its samples, and the samples left over after them.

\* frame_size = int(framerate * 0.03), at the rate save_audio writes.
frame_size == (RATE * FRAME_MS) \div 1000

\* The samples of the left channel.
NumSamples(seg) == Len(seg.frames) * frame_size + seg.tail

\* num_frames = len(audio_left) // frame_size
num_frames(seg) == NumSamples(seg) \div frame_size

\* rms > energy_threshold and delta > delta_threshold
SpeechLike(fr) == fr.rms > ENERGY_THRESHOLD /\ fr.delta > DELTA_THRESHOLD

\* The for loop over the frames: speech_frames += 1 for each speech-like one.
RECURSIVE speech_frames(_, _)
speech_frames(seg, i) ==
    IF i > num_frames(seg) THEN 0
    ELSE (IF SpeechLike(seg.frames[i]) THEN 1 ELSE 0) + speech_frames(seg, i + 1)

\* A faulty variant: a ratio of exactly 0.1 counts as speech.
SpeechDecisionInclusive(seg) ==
    IF num_frames(seg) = 0 THEN FALSE
    ELSE speech_frames(seg, 1) * 100 >= RATIO_PERCENT * num_frames(seg)

\* speech_ratio = 0.0 with no frame, else speech_frames / num_frames;
\* return speech_ratio > 0.1
SpeechDecision(seg) ==
    IF num_frames(seg) = 0 THEN FALSE
    ELSE speech_frames(seg, 1) * 100 > RATIO_PERCENT * num_frames(seg)

\* RMS and delta of a frame: of all-zero samples (0, 0), and just below, at
\* and above each threshold.
FrameValues ==
    [rms : {0, ENERGY_THRESHOLD, ENERGY_THRESHOLD + 1},
     delta : {0, DELTA_THRESHOLD, DELTA_THRESHOLD + 1}]

\* Segments of up to MaxFrames complete frames, k frames of one kind followed
\* by frames of another, with or without an incomplete frame at the end.
SpeechInputs ==
    { [frames |-> [i \in 1..n |-> IF i <= k THEN a ELSE b], tail |-> t] :
        n \in 0..MaxFrames, k \in 0..MaxFrames, a \in FrameValues, b \in FrameValues,
        t \in {0, frame_size - 1} }

InitSpeech ==
    /\ InitProgram
    /\ wear_in = NoWindow /\ wear_out = "undetermined"
    /\ DEBUG = TRUE
    /\ data = {} /\ sent = {} /\ uploads = {}
    /\ mon_pc = "list" /\ mon_files = <<>> /\ mon_i = 1
    /\ skipped = {} /\ retries = [n \in 1..MaxFiles |-> 0]
    /\ cur_class = "none" /\ cur_removes = 0
    /\ now = 1 /\ seg_start = 1 /\ writing = 0
    /\ speech_in \in SpeechInputs
    /\ speech_out = <<>>

\* detect_speech(filename) on the segment, once and once again.
SpeechApply ==
    /\ Len(speech_out) < 2
    /\ speech_out' = Append(speech_out, SpeechDecision(speech_in))
    /\ UNCHANGED speech_in
    /\ UNCHANGED <<sharedVars, recVars, mainVars, oledVars, detVars, histVars>>
    /\ UNCHANGED <<wearVars, monVars, clockVars>>

\* ------------------------------------------------------ the specifications
\* The capture pipeline: the producer, the orchestrator loop, the mode
\* controller with its button, and the wear detector.
Next ==
    \/ RecCheck \/ RecIdle \/ RecRead \/ RecReadError
    \/ MainAcquire \/ MainEval \/ MainJoin
    \/ (MainGate /\ SegmentsBelow(MaxSegments))
    \/ MainPop \/ MainPopTimeout \/ MainSave
    \/ ButtonPress \/ ButtonRelease \/ OledPoll \/ OledWait
    \/ DetLoop \/ DetWindow

Spec == Init /\ [][Next]_vars

\* The mode controller from start to shutdown: the button, run(), and the
\* stop() and join() of main()'s finally block.
NextModes ==
    \/ ButtonPress \/ ButtonRelease \/ OledPoll \/ OledWait
    \/ MainInterrupt \/ MainFinally \/ MainOledStop \/ MainOledJoin

SpecModes == Init /\ [][NextModes]_vars

\* Shutdown with every thread main() started, from any mode the button left
\* the controller in before main()'s first evaluation; each thread is
\* scheduled fairly.
InitShutdown ==
    /\ lock = "free" /\ should_record = TRUE /\ audio_queue = <<>>
    /\ rec_pc = "check" /\ rec_gate_seen = FALSE /\ next_chunk = 1
    /\ stream_open = TRUE
    /\ main_pc = "lock" /\ mode_idx = 0 /\ detection_active = FALSE
    /\ frames = <<>> /\ timed_out = FALSE /\ segments = <<>>
    /\ button = "HIGH" /\ oled_pc = "poll" /\ oled_running = TRUE
    /\ mode_index \in 0..(NumModes - 1)
    /\ mode_changed = (mode_index # 0) /\ gpio_ok = TRUE
    /\ det_running = FALSE /\ det_pc = "none" /\ current_status = NOT_WORN
    /\ reads_gate_off = 0 /\ idles_gate_on = 0
    /\ release_observed = FALSE /\ notified = 0 /\ press_handled = FALSE
    /\ win_fail = "none"
    /\ InitIdleMonitor
    /\ wear_in = NoWindow
    /\ wear_out = "undetermined"

RecNext == RecCheck \/ RecIdle \/ RecRead \/ RecReadError

MainShutdownNext ==
    \/ MainAcquire \/ MainEval
    \/ MainInterrupt \/ MainFinally \/ MainOledStop \/ MainOledJoin

DetNext == DetLoop \/ DetWindow

MonIdleNext == MonList \/ MonSleep

NextShutdown == RecNext \/ MainShutdownNext \/ OledPoll \/ DetNext \/ MonIdleNext

SpecShutdown ==
    /\ InitShutdown /\ [][NextShutdown]_vars
    /\ WF_vars(RecNext) /\ WF_vars(MainShutdownNext) /\ WF_vars(OledPoll)
    /\ WF_vars(DetNext) /\ WF_vars(MonIdleNext)

\* The capture pipeline with each of its threads scheduled fairly: a thread
\* that can keep taking a step eventually takes one. threading.Lock promises
\* no order among the threads that want it, so a thread waiting for the lock
\* is owed a step only while the lock stays free.
MainNext ==
    \/ MainAcquire \/ MainEval \/ MainJoin
    \/ (MainGate /\ SegmentsBelow(MaxSegments))
    \/ MainPop \/ MainPopTimeout \/ MainSave

OledNext == OledPoll \/ OledWait

SpecFair ==
    /\ Init /\ [][Next]_vars
    /\ WF_vars(RecNext) /\ WF_vars(MainNext) /\ WF_vars(OledNext) /\ WF_vars(DetNext)

\* get_wear_status applied to one window.
NextWear == WearApply

SpecWear == InitWear /\ [][NextWear]_vars

\* From capture to upload: the producer, the assembly loop in mode ON with
\* save_audio's file written in two steps, the clock, and the monitor.
InitSegments ==
    /\ InitProgram
    /\ wear_in = NoWindow /\ wear_out = "undetermined"
    /\ InitIdle
    /\ DEBUG \in BOOLEAN
    /\ data = {} /\ sent = {} /\ uploads = {}
    /\ mon_pc = "list" /\ mon_files = <<>> /\ mon_i = 1
    /\ skipped = {} /\ retries = [n \in 1..MaxFiles |-> 0]
    /\ cur_class = "none" /\ cur_removes = 0

NextSegments ==
    \/ RecCheck \/ RecRead \/ RecReadError
    \/ MainAcquire \/ MainEval
    \/ (MainGate /\ SegmentsBelow(MaxSegments + 1))
    \/ MainPop \/ MainPopTimeout
    \/ SaveOpen \/ SaveClose \/ Tick
    \/ MonList \/ MonProbe \/ MonSleep \/ MonSend \/ MonRemove

SpecSegments == InitSegments /\ [][NextSegments]_vars

\* detect_speech applied to one segment.
NextSpeech == SpeechApply

SpecSpeech == InitSpeech /\ [][NextSpeech]_vars

\* The upload monitor over a directory of segment files.
NextMonitor == MonList \/ MonProbe \/ MonSleep \/ MonSend \/ MonRemove

SpecMonitor == InitMonitor /\ [][NextMonitor]_vars

\* The probe of the file at hand finds the network reachable.
MonProbeReachable == MonProbe /\ mon_pc' = "send"

\* The monitor scheduled fairly, with a network that is reachable again and
\* again: a probe that keeps being made eventually succeeds.
SpecMonitorFair ==
    /\ InitMonitor /\ [][NextMonitor]_vars
    /\ WF_vars(NextMonitor) /\ SF_vars(MonProbeReachable)

\* ------------------------------------------------------------- properties
\* The detector is started and its sampling loop is live.
DetectorActive ==
    detection_active /\ det_running /\ det_pc \in {"loop", "window"}

\* The detector is stopped and its sampling loop has been joined.
DetectorInactive ==
    ~detection_active /\ ~det_running /\ det_pc = "none"

\* The gate table, for the mode the orchestrator read in its last evaluation.
GateTable ==
    /\ mode_idx = 0 => should_record /\ DetectorActive
    /\ mode_idx = 1 => (should_record = STATUS_DICT(current_status)) /\ DetectorActive
    /\ mode_idx = 2 => ~should_record /\ DetectorInactive

\* C1: every step that completes a gate evaluation (the with block of main()
\* ends) leaves the gate and the detector as the gate table says for the mode
\* read in that evaluation: ON gives gate true and detector active, AUTO gives
\* gate = the detector's isWorn and detector active, OFF gives gate false and
\* detector inactive.
C1_GateFollowsTable ==
    [][(main_pc \in {"eval", "join"} /\ main_pc' = "gate") => GateTable']_vars

\* C1 witness: an evaluation in AUTO found the device worn and opened the gate.
C1_Witness ==
    /\ main_pc = "gate" /\ mode_idx = 1 /\ should_record
    /\ STATUS_DICT(current_status) /\ DetectorActive

\* C2, as claimed: whenever record_audio is about to issue stream.read, the
\* gate is true.
C2_NoReadWhileGateFalse == rec_pc = "read" => should_record

\* C2, amended: record_audio issues stream.read only in an iteration whose
\* gate check, made under the lock, saw the gate true; the gate may have been
\* set false since, and then this is the first read since it was.
C2_ReadFollowsOpenGate ==
    rec_pc = "read" => (rec_gate_seen /\ (~should_record => reads_gate_off = 0))

\* C2 witness: a read is about to be issued although the gate is now false.
C2_Witness == rec_pc = "read" /\ ~should_record /\ rec_gate_seen

\* C3: while the gate stays true the producer spends at most one idle sleep
\* before it reads, and while the gate stays false it issues at most one more
\* read.
C3_GateLag == idles_gate_on <= 1 /\ reads_gate_off <= 1

\* C3 witness: the gate went false while a read was under way, that one read
\* was issued, and the producer is now idle.
C3_Witness == ~should_record /\ reads_gate_off = 1 /\ rec_pc = "idle"

\* C4: every persisted segment holds at most the target chunk count, exactly
\* the target count when no pull timed out, and fewer when a pull timed out
\* (assembly having stopped at that pull).
C4_SegmentSize ==
    \A i \in 1..Len(segments) :
        /\ Len(segments[i].frames) <= TargetChunks
        /\ ~segments[i].timed_out => Len(segments[i].frames) = TargetChunks
        /\ segments[i].timed_out => Len(segments[i].frames) < TargetChunks

\* C4 witness: a segment cut short by a timeout was persisted with the chunks
\* it had.
C4_Witness ==
    \E i \in 1..Len(segments) :
        segments[i].timed_out /\ Len(segments[i].frames) = TargetChunks - 1
                              /\ TargetChunks > 1

\* C5, as claimed: the mode changes only by one step of the cycle, and only
\* in a step in which the release of the button was observed.
C5_ModeChangesOnConfirmedPress ==
    [][mode_index' # mode_index =>
          (mode_index' = (mode_index + 1) % NumModes /\ release_observed')]_vars

\* C6, as claimed: a handled press has made exactly one mode-changed
\* notification.
C6_OneNotificationPerPress == press_handled => notified = 1

\* The decision table of the wear state, first match wins.
WearTable(motion, warm, slope) ==
    CASE motion /\ warm -> WORN_ACTIVE
      [] motion /\ ~warm /\ slope > 10 -> POSSIBLY_WORN
      [] motion /\ ~warm /\ slope <= 10 -> AMBIENT_MOTION
      [] ~motion /\ slope < -10 -> RECENTLY_REMOVED
      [] ~motion /\ slope >= -10 -> NOT_WORN

\* C7: with the window's data in, the status is the decision table's entry
\* for motion = accel_std > 0.05 or gyro_std > 0.2, warm = temperature > 27.5
\* and the slope, and isWorn holds exactly for the two worn states.
C7_WearTable ==
    (wear_out # "undetermined" /\ ~WindowRaises(wear_in.nfail, wear_in.temp_fail)) =>
        /\ wear_out = WearTable(wear_in.accel_std > 5 \/ wear_in.gyro_std > 20,
                                wear_in.temp > 275, wear_in.temp_slope)
        /\ STATUS_DICT(wear_out) = (wear_out \in {WORN_ACTIVE, POSSIBLY_WORN})

\* C7 witness: motion, not warm and a slope of exactly 0.1 gave AMBIENT_MOTION.
C7_Witness ==
    /\ wear_out = AMBIENT_MOTION
    /\ wear_in.temp_slope = 10 /\ wear_in.temp <= 275 /\ wear_in.accel_std > 5
    /\ ~WindowRaises(wear_in.nfail, wear_in.temp_fail)

\* A step of the sampling loop that ends a window.
WindowEnds == det_pc = "window" /\ det_pc' # "window"

\* C8, as claimed: a window in which any sensor read failed leaves the exposed
\* status as it was, and the loop goes on.
C8_AnyFailureRetains ==
    [][WindowEnds =>
          (det_pc' = "loop" /\ (win_fail' # "none" => current_status' = current_status))]_vars

\* C8, amended: a window whose temperature read failed, or all of whose
\* motion samples failed, leaves the exposed status as it was; in every case
\* the loop goes on to its next iteration.
C8_RaisedFailureRetains ==
    [][WindowEnds =>
          (det_pc' = "loop" /\ (win_fail' = "raised" => current_status' = current_status))]_vars

\* C8 witness: a window failed and a worn status was kept through it.
C8_Witness ==
    win_fail = "raised" /\ det_pc = "loop" /\ current_status = WORN_ACTIVE

\* No request was posted for the file of this name.
NotPosted(n) == \A u \in uploads : u.name # n

\* The files whose probe failed in this cycle are in data/ and neither in
\* sent/ nor posted.
SkippedUntouched ==
    \A n \in skipped : n \in Names(data) /\ n \notin Names(sent) /\ NotPosted(n)

\* C9: a file whose reachability probe failed in this cycle is not deleted,
\* moved or posted, and the next listing of the directory holds it again.
C9_ProbeFailedFileKept ==
    [][/\ SkippedUntouched'
       /\ \A n \in skipped \cap skipped' : FileNamed(data', n) = FileNamed(data, n)
       /\ (mon_pc = "list" /\ mon_pc' = "file") =>
             \A n \in skipped : \E i \in 1..Len(mon_files') : mon_files'[i] = n]_vars

\* C9 witness: a file has been skipped in as many cycles as are counted and
\* is still in data/.
C9_Witness ==
    \E n \in skipped : retries[n] = MaxRetries /\ n \in Names(data)

\* C10, as claimed: in either configuration a file classified as no-speech
\* has had exactly one delete, and is neither in sent/ nor posted.
C10_SilentDeletedOnce ==
    cur_class = "silent" =>
        /\ cur_removes = 1
        /\ CurrentName \notin Names(sent)
        /\ NotPosted(CurrentName)

\* C11: in the archival configuration, the step that handles a reachable
\* speech-present file moves it to sent/ as it is, posts nothing and deletes
\* nothing; nothing is ever posted in this configuration, no file in sent/ is
\* removed from it, and the monitor makes no delete for the file.
C11_ArchivedNotDeleted ==
    [][DEBUG =>
         /\ uploads' = {}
         /\ \A r \in sent : r \in sent'
         /\ (cur_class' = "speech" => cur_removes' = 0)
         /\ (mon_pc = "send" /\ detect_speech(FileNamed(data, CurrentName).content)) =>
               /\ FileNamed(data, CurrentName) \in sent'
               /\ CurrentName \notin Names(data')]_vars

\* C11 witness: an archived file is in sent/ and the monitor has gone on to
\* the next file without a delete.
C11_Witness ==
    /\ DEBUG /\ cur_class = "speech" /\ mon_pc = "file" /\ mon_i > 1
    /\ mon_files[mon_i - 1] \in Names(sent)
    /\ mon_files[mon_i - 1] \notin Names(data)
    /\ cur_removes = 0

\* C12, as claimed: in the non-archival configuration a file for which an
\* upload was attempted is deleted after the attempt, whatever the attempt's
\* outcome (the delete being the monitor's next step while it is pending).
C12_DeletedAfterAttempt ==
    ~DEBUG =>
        \A u \in uploads :
            (mon_pc = "remove" /\ u.name = CurrentName) \/ u.name \notin Names(data)

\* C13, as claimed: no failure while handling a file ends the monitor loop.
C13_MonitorNeverDies == mon_pc # "dead"

\* No background loop is running: record_audio, monitor_and_send,
\* _run_detection and run() have all returned.
BackgroundLoopsStopped ==
    /\ rec_pc = "stopped"
    /\ mon_pc \in {"stopped", "dead"}
    /\ det_pc \in {"none", "exit"}
    /\ oled_pc = "done"

\* C14, as claimed: once shutdown is requested (main() enters its finally
\* block) every background loop eventually terminates.
C14_LoopsTerminateAfterShutdown == (main_pc = "finally") ~> BackgroundLoopsStopped

\* C15, as claimed (mode controller): once stop() has performed its cleanup
\* (running cleared, screen cleared, GPIO.cleanup() done), run() has
\* terminated: no further iteration, no further hardware access.
C15_StopEndsLoop == ~gpio_ok => oled_pc = "done"

\* The speech-like frames of the segment put to the classifier: those whose
\* RMS exceeds 0.0003 and whose delta exceeds 0.00006.
SpeechLikeFrames ==
    {i \in 1..Len(speech_in.frames) :
        speech_in.frames[i].rms > 30 /\ speech_in.frames[i].delta > 6}

\* Every sample of the segment is zero.
AllZero == \A i \in 1..Len(speech_in.frames) :
               speech_in.frames[i].rms = 0 /\ speech_in.frames[i].delta = 0

\* C16: every verdict on the segment is speech-present exactly when more than
\* a tenth of its complete frames are speech-like; a segment with no complete
\* frame or with all-zero samples is no-speech; the second verdict equals the
\* first.
C16_SpeechDecision ==
    /\ \A j \in 1..Len(speech_out) :
          /\ speech_out[j] = (10 * Cardinality(SpeechLikeFrames) > Len(speech_in.frames))
          /\ (Len(speech_in.frames) = 0 \/ AllZero) => ~speech_out[j]
    /\ Len(speech_out) = 2 => speech_out[1] = speech_out[2]

\* C16 witness: exactly one frame in ten is speech-like, an incomplete frame
\* follows, and the segment was classified no-speech twice.
C16_Witness ==
    /\ Len(speech_in.frames) = 10 /\ Cardinality(SpeechLikeFrames) = 1
    /\ speech_in.tail > 0
    /\ speech_out = <<FALSE, FALSE>>

\* C17, as claimed: the file the monitor is about to classify (and then
\* delete, move or upload) is not one save_audio still has open for writing.
C17_MonitorSkipsOpenFile == mon_pc = "send" => CurrentName # writing

\* C19, as claimed: every persisted segment's file is named by the second its
\* assembly began.
C19_NamedByCaptureStart ==
    \A i \in 1..Len(segments) : segments[i].name = segments[i].started

\* C18, as claimed: with the network reachable again and again and the
\* monitor scheduled fairly, every file in data/ eventually leaves it.
C18_EveryFileConsumed ==
    \A n \in FileNames : (n \in Names(data)) ~> (n \notin Names(data))

\* The chunks of the persisted segments, from the i-th on, in order.
RECURSIVE PersistedChunks(_)
PersistedChunks(i) ==
    IF i > Len(segments) THEN <<>>
    ELSE segments[i].frames \o PersistedChunks(i + 1)

\* The chunks of the segment being assembled or being saved.
InAssembly == IF main_pc \in {"pop", "save", "write"} THEN frames ELSE <<>>

\* C20: the persisted segments in order, then the segment being assembled,
\* then the queue hold every chunk the producer has read exactly once and in
\* capture order.
C20_ChunksConserved ==
    PersistedChunks(1) \o InAssembly \o audio_queue = [i \in 1..(next_chunk - 1) |-> i]

\* C20 witness: two segments have been persisted and both chunks read are in
\* them, one in each.
C20_Witness ==
    /\ Len(segments) = 2
    /\ segments[1].frames = <<1>> /\ segments[2].frames = <<2>>
    /\ audio_queue = <<>>

\* C21, as claimed: every persisted segment holds at least one chunk.
C21_NoEmptySegment ==
    \A i \in 1..Len(segments) : Len(segments[i].frames) >= 1

\* C22, as claimed: whenever the orchestrator is about to take the gate lock
\* it eventually holds it and finishes the evaluation.
C22_GateEvaluationProgresses == (main_pc = "lock") ~> (main_pc = "gate")

====
